---- MODULE Spec2Model ----
(***************************************************************************)
(* plumber: a process-pipeline supervisor (src/src/pipeline.rs).           *)
(*                                                                         *)
(* A pipeline expression ("a -x | b | c") is parsed into commands, every   *)
(* command is spawned as an OS process with stdout piped into the next     *)
(* one, the pid of the first process is written to <metadata>/<name>/.pid, *)
(* the supervisor waits for every process and removes the record.          *)
(* Pipeline::stop(name) is run by a separate process: it reads the record  *)
(* and runs `kill -SIGTERM <pid>`.                                         *)
(*                                                                         *)
(* Strings are sequences of one-character strings.                         *)
(***************************************************************************)
EXTENDS Integers, Sequences, FiniteSets, TLC

\* ------------------------------------------------------------------ bounds

\* longest pipeline expression enumerated by ParseSpec
MaxLen == 6
\* longest pipeline (number of stages) run by Spec
MaxStages == 3
\* number of Pipeline::stop invocations racing with one run
MaxStops == 2
\* the OS hands out pids above this number
BasePid == 9

\* characters of the enumerated pipeline expressions
Alphabet == {"a", "b", " ", "|", "'"}

\* ------------------------------------------------------------------ shlex

Whitespace == {" ", "\t", "\n"}

\* the grave accent, which a TLA+ string cannot hold
Grave == "grave"

\* Shlex::parse_single: s[i] is the character after the opening quote.
RECURSIVE parse_single(_, _, _)
parse_single(s, i, acc) ==
    IF i > Len(s) THEN [ok |-> FALSE, pos |-> i, out |-> acc]
    ELSE IF s[i] = "'" THEN [ok |-> TRUE, pos |-> i + 1, out |-> acc]
    ELSE parse_single(s, i + 1, Append(acc, s[i]))

\* Shlex::parse_double: s[i] is the character after the opening quote.
RECURSIVE parse_double(_, _, _)
parse_double(s, i, acc) ==
    IF i > Len(s) THEN [ok |-> FALSE, pos |-> i, out |-> acc]
    ELSE IF s[i] = "\\" THEN
        IF i + 1 > Len(s) THEN [ok |-> FALSE, pos |-> i + 1, out |-> acc]
        ELSE IF s[i + 1] = "\n" THEN parse_double(s, i + 2, acc)
        ELSE IF s[i + 1] \in {"$", Grave, "\"", "\\"}
             THEN parse_double(s, i + 2, Append(acc, s[i + 1]))
        ELSE parse_double(s, i + 2, acc \o <<"\\", s[i + 1]>>)
    ELSE IF s[i] = "\"" THEN [ok |-> TRUE, pos |-> i + 1, out |-> acc]
    ELSE parse_double(s, i + 1, Append(acc, s[i]))

\* A faulty variant of parse_word: the quote characters stay in the word.
RECURSIVE parse_word_keep_quotes(_, _, _)
parse_word_keep_quotes(s, i, acc) ==
    IF i > Len(s) THEN [ok |-> TRUE, pos |-> i, out |-> acc]
    ELSE IF s[i] \in Whitespace THEN [ok |-> TRUE, pos |-> i + 1, out |-> acc]
    ELSE parse_word_keep_quotes(s, i + 1, Append(acc, s[i]))

\* Shlex::parse_word: s[i] is the first character of the word; the word ends
\* at unquoted whitespace (consumed) or at the end of the input.
RECURSIVE parse_word(_, _, _)
parse_word(s, i, acc) ==
    IF i > Len(s) THEN [ok |-> TRUE, pos |-> i, out |-> acc]
    ELSE IF s[i] = "\"" THEN
        LET r == parse_double(s, i + 1, acc)
        IN  IF r.ok THEN parse_word(s, r.pos, r.out) ELSE r
    ELSE IF s[i] = "'" THEN
        LET r == parse_single(s, i + 1, acc)
        IN  IF r.ok THEN parse_word(s, r.pos, r.out) ELSE r
    ELSE IF s[i] = "\\" THEN
        IF i + 1 > Len(s) THEN [ok |-> FALSE, pos |-> i + 1, out |-> acc]
        ELSE IF s[i + 1] = "\n" THEN parse_word(s, i + 2, acc)
        ELSE parse_word(s, i + 2, Append(acc, s[i + 1]))
    ELSE IF s[i] \in Whitespace THEN [ok |-> TRUE, pos |-> i + 1, out |-> acc]
    ELSE parse_word(s, i + 1, Append(acc, s[i]))

\* the position after the newline that ends a comment
RECURSIVE skip_comment(_, _)
skip_comment(s, i) ==
    IF i > Len(s) THEN i
    ELSE IF s[i] = "\n" THEN i + 1
    ELSE skip_comment(s, i + 1)

\* Shlex as an iterator, collected: the words from position i on, and whether
\* the tokenizer ended in error (had_error).
RECURSIVE shlex_collect(_, _, _)
shlex_collect(s, i, acc) ==
    IF i > Len(s) THEN [ok |-> TRUE, out |-> acc]
    ELSE IF s[i] \in Whitespace THEN shlex_collect(s, i + 1, acc)
    ELSE IF s[i] = "#" THEN shlex_collect(s, skip_comment(s, i + 1), acc)
    ELSE LET r == parse_word(s, i, <<>>)
         IN  IF r.ok THEN shlex_collect(s, r.pos, Append(acc, r.out))
             ELSE [ok |-> FALSE, out |-> acc]

\* shlex::split(..).unwrap_or_default(): None (a tokenizer error) becomes
\* the empty vector.
shlex_split_or_default(s) ==
    LET r == shlex_collect(s, 1, <<>>)
    IN  IF r.ok THEN r.out ELSE <<>>

\* ------------------------------------------------------------------ parsing

\* str::split(sep): the pieces between the separators, from position i on;
\* cur is the piece being read. The empty string splits into one empty piece.
RECURSIVE split_from(_, _, _, _)
split_from(s, sep, i, cur) ==
    IF i > Len(s) THEN <<cur>>
    ELSE IF s[i] = sep THEN <<cur>> \o split_from(s, sep, i + 1, <<>>)
    ELSE split_from(s, sep, i + 1, Append(cur, s[i]))

split(s, sep) == split_from(s, sep, 1, <<>>)

\* A faulty variant of PipelineCommand_new: the name is taken from the wrong end.
PipelineCommand_new_last(cmd) ==
    IF cmd = <<>> THEN [panic |-> TRUE, name |-> <<>>, args |-> <<>>]
    ELSE [panic |-> FALSE, name |-> cmd[Len(cmd)],
          args |-> SubSeq(cmd, 1, Len(cmd) - 1)]

\* PipelineCommand::new: Vec::remove(0) panics on an empty vector.
PipelineCommand_new(cmd) ==
    IF cmd = <<>> THEN [panic |-> TRUE, name |-> <<>>, args |-> <<>>]
    ELSE [panic |-> FALSE, name |-> Head(cmd), args |-> Tail(cmd)]

\* Pipeline::parse_raw_pipeline: a panic in any PipelineCommand::new, or in
\* the assertion on the result, unwinds out of the function.
parse_raw_pipeline(raw_pipeline) ==
    LET split_on_pipe == split(raw_pipeline, "|")
        split_on_whitespace ==
            [k \in 1..Len(split_on_pipe) |-> shlex_split_or_default(split_on_pipe[k])]
        made ==
            [k \in 1..Len(split_on_whitespace) |-> PipelineCommand_new(split_on_whitespace[k])]
    IN  IF (\E k \in 1..Len(made) : made[k].panic) \/ made = <<>>
        THEN [panic |-> TRUE, commands |-> <<>>]
        ELSE [panic |-> FALSE,
              commands |-> [k \in 1..Len(made) |->
                               [name |-> made[k].name, args |-> made[k].args]]]

\* ------------------------------------------------------------------ errors

\* the std::io::ErrorKind values the model tells apart
IoKinds == {"NotFound", "PermissionDenied", "Other"}

\* A faulty variant of From_io_Error: every kind becomes Other.
From_io_Error_all_other(kind) == "Other"

\* impl From<std::io::Error> for PipelineError
From_io_Error(kind) ==
    IF kind = "NotFound" THEN "FileNotFound" ELSE "Other"

\* ------------------------------------------------------------------ pids

Digits == <<"0", "1", "2", "3", "4", "5", "6", "7", "8", "9">>

\* u32::to_string: the decimal digits, most significant first
RECURSIVE to_string(_)
to_string(n) ==
    IF n < 10 THEN <<Digits[n + 1]>>
    ELSE Append(to_string(n \div 10), Digits[(n % 10) + 1])

DigitValue(c) == CHOOSE d \in 0..9 : Digits[d + 1] = c

\* kill(1) reading its pid argument: the number, or -1 for text that is no
\* decimal number (the empty string included)
RECURSIVE parse_pid_from(_, _, _)
parse_pid_from(s, i, acc) ==
    IF i > Len(s) THEN acc
    ELSE IF \E d \in 1..10 : Digits[d] = s[i]
         THEN parse_pid_from(s, i + 1, acc * 10 + DigitValue(s[i]))
    ELSE -1

parse_pid(s) == IF s = <<>> THEN -1 ELSE parse_pid_from(s, 1, 0)

\* the pid the OS gives the process spawned for stage i
pid_of(i) == BasePid + i

\* ------------------------------------------------------------------ state

VARIABLES
    raw,        \* Pipeline.raw_pipeline: the expression given to Pipeline::new
    pc,         \* where the supervisor (Pipeline::new, then run) stands
    new_result, \* what Pipeline::new gave its caller
    commands,   \* Pipeline.commands
    jobs,       \* Pipeline.jobs: one entry per spawned child, in spawn order
    waited,     \* how many entries of jobs the wait loop of run has passed
    proc,       \* the OS's view of the process of each stage
    parent_fds, \* the ends of connecting pipes open in the supervisor
    pid_file,   \* <metadata>/<name>/.pid
    stops,      \* the invocations of Pipeline::stop(name)
    signals,    \* every SIGTERM sent so far: who sent it, to which pid
    pending,    \* pids with a SIGTERM sent and not yet acted on
    run_result  \* how run ended: its return, or the panic that unwound it

vars == <<raw, pc, new_result, commands, jobs, waited, proc, parent_fds,
          pid_file, stops, signals, pending, run_result>>

Stages == 1..MaxStages
StopIds == 1..MaxStops

NoFile == [exists |-> FALSE, content |-> <<>>]

\* run has not ended
NoResult == [kind |-> "none", at |-> "", err |-> "", name |-> <<>>, args |-> <<>>]

\* run returned ()
Returned == [NoResult EXCEPT !.kind = "returned"]

\* the panic of unwrap() on Err(err) at a call of run
UnwrapPanic(at, err) == [NoResult EXCEPT !.kind = "panic", !.at = at, !.err = err]

\* the panic of spawn().expect("Failed to spawn command: <name> <args>")
ExpectPanic(err, cmd) ==
    [kind |-> "panic", at |-> "spawn", err |-> err, name |-> cmd.name,
     args |-> cmd.args]

\* an invocation of stop: where it stands, whether the record existed when
\* read_to_string ran, first_job_pid, what stop returned, the exit status of
\* kill
StopIdle ==
    [pc |-> "idle", existed |-> FALSE, pid |-> <<>>, result |-> "none",
     kill_status |-> -1]

\* the expression of an n-stage pipeline: "a| b 'a' |a| b 'a' ..."
RECURSIVE Expr(_)
Expr(n) ==
    LET stage == IF n % 2 = 1 THEN <<"a">> ELSE <<" ", "b", " ", "'", "a", "'", " ">>
    IN  IF n = 1 THEN stage ELSE Expr(n - 1) \o <<"|">> \o stage

\* the expressions run by Spec: pipelines of 1..MaxStages stages, and one
\* with an empty last stage
RunExprs == {Expr(n) : n \in 1..MaxStages} \cup {<<"a", "|">>}

InitRest ==
    /\ pc = "start"
    /\ new_result = "none"
    /\ commands = <<>>
    /\ jobs = <<>>
    /\ waited = 0
    /\ proc = [i \in Stages |-> "unborn"]
    /\ parent_fds = {}
    /\ pid_file = NoFile
    /\ stops = [k \in StopIds |-> StopIdle]
    /\ signals = {}
    /\ pending = {}
    /\ run_result = NoResult

Init == raw \in RunExprs /\ InitRest

\* ------------------------------------------------------------------ Pipeline::new

\* parse_raw_pipeline panics: nothing is returned to the caller
NewPanic ==
    /\ pc = "start"
    /\ parse_raw_pipeline(raw).panic
    /\ pc' = "panicked"
    /\ new_result' = "panic"
    /\ UNCHANGED <<run_result, raw, commands, jobs, waited, proc, parent_fds,
                   pid_file, stops, signals, pending>>

\* one of the two create_dir_with_nice_error calls fails: Err through `?`
NewDirFail ==
    /\ pc = "start"
    /\ ~parse_raw_pipeline(raw).panic
    /\ \E kind \in IoKinds :
          new_result' = From_io_Error(kind)
    /\ pc' = "new_failed"
    /\ UNCHANGED <<run_result, raw, commands, jobs, waited, proc, parent_fds,
                   pid_file, stops, signals, pending>>

\* Ok(Pipeline { commands, jobs: Vec::new(), .. })
NewOk ==
    /\ pc = "start"
    /\ ~parse_raw_pipeline(raw).panic
    /\ commands' = parse_raw_pipeline(raw).commands
    /\ new_result' = "Ok"
    /\ pc' = "created"
    /\ UNCHANGED <<run_result, raw, jobs, waited, proc, parent_fds, pid_file,
                   stops, signals, pending>>

\* ------------------------------------------------------------------ Pipeline::run

Inherit == <<0, "inherit">>

\* A faulty variant of prev_stdout: every stage reads the supervisor's stdin.
prev_stdout_inherit(js) == Inherit

\* prev_stdout of spawn_all: Stdio::inherit() before the first stage, then
\* the read end of the pipe the last spawned child writes to
prev_stdout(js) ==
    IF js = <<>> THEN Inherit ELSE <<js[Len(js)].stdout[1], "r">>

\* A faulty variant of parent_fds_after_spawn: the supervisor keeps the write end of
\* the pipe it made for the child's stdout.
parent_fds_keep_write(fds, i, n) ==
    {f \in fds : f[2] = "w"} \cup (IF i < n THEN {<<i, "r">>, <<i, "w">>} ELSE {})

\* A faulty variant of parent_fds_after_spawn: child.stdout, once handed to the
\* next stage, stays open in the supervisor.
parent_fds_keep_read(fds, i, n) ==
    fds \cup (IF i < n THEN {<<i, "r">>} ELSE {})

\* The pipe ends open in the supervisor after stage i of n is spawned:
\* Command::spawn closes the child's end of a Stdio::piped() pipe in the
\* parent, child.stdout (the read end) stays open until it is moved into the
\* next Command, and that Command is dropped at the end of spawn_process.
parent_fds_after_spawn(fds, i, n) ==
    IF i < n THEN {<<i, "r">>} ELSE {}

\* the process group of the supervisor itself
supervisor_pgid == pid_of(0)

\* A faulty variant of process_group: the child stays in the group of its
\* parent.
process_group_inherited(pgroup, pid) == supervisor_pgid

\* Command::process_group(pgroup): the child calls setpgid(0, pgroup), and
\* pgroup 0 makes the child the leader of a new group named by its own pid
process_group(pgroup, pid) == IF pgroup = 0 THEN pid ELSE pgroup

\* A faulty variant of drop_jobs: the children still running are killed.
drop_jobs_kill(p) ==
    [i \in DOMAIN p |-> IF p[i] = "running" THEN "zombie" ELSE p[i]]

\* Pipeline.jobs dropped while run unwinds: dropping a std::process::Child
\* neither kills nor waits for the process
drop_jobs(p) == p

\* A faulty variant of File_create: an existing file keeps its content.
File_create_keep(f) == [f EXCEPT !.exists = TRUE]

\* fs::File::create: the file is created, or truncated if it exists
File_create(f) == [exists |-> TRUE, content |-> <<>>]

\* write_all on the file just opened: the bytes replace what the file holds
\* from its start
write_all(f, bytes) ==
    [exists |-> TRUE,
     content |-> bytes \o SubSeq(f.content, Len(bytes) + 1, Len(f.content))]

\* A faulty variant of to_string: only the last digit is written.
to_string_last_digit(n) == <<Digits[(n % 10) + 1]>>

\* the decimal text of a pid, as written to the record
pid_text(n) == to_string(n)

\* A faulty variant of get_first_pid: the pid of the last job.
get_last_pid(js) == js[Len(js)].pid

\* Pipeline::get_first_pid (the number; to_string is applied where it is written)
get_first_pid(js) == js[1].pid

\* spawn_all, one stage: File::create of the stderr log succeeds and
\* spawn_process returns the child, which is pushed to jobs
SpawnOk ==
    /\ pc \in {"created", "spawn_all"}
    /\ LET i == Len(jobs) + 1
           n == Len(commands)
       IN  /\ jobs' = Append(jobs,
                  [name |-> commands[i].name, args |-> commands[i].args,
                   pid |-> pid_of(i), pgid |-> process_group(0, pid_of(i)),
                   stdin |-> prev_stdout(jobs),
                   stdout |-> IF i < n THEN <<i, "w">> ELSE Inherit])
           /\ proc' = [proc EXCEPT ![i] = "running"]
           /\ parent_fds' = parent_fds_after_spawn(parent_fds, i, n)
           /\ pc' = IF i = n THEN "spawned" ELSE "spawn_all"
    /\ UNCHANGED <<run_result, raw, new_result, commands, waited, pid_file,
                   stops, signals, pending>>

\* spawn_all, one stage: File::create of the stderr log fails, unwrap panics;
\* unwinding drops prev_stdout and the jobs (a dropped Child keeps running)
LogFilePanic ==
    /\ pc \in {"created", "spawn_all"}
    /\ pc' = "panicked"
    /\ parent_fds' = {}
    /\ proc' = drop_jobs(proc)
    /\ \E err \in IoKinds : run_result' = UnwrapPanic("log", err)
    /\ UNCHANGED <<raw, new_result, commands, jobs, waited, pid_file,
                   stops, signals, pending>>

\* spawn_all, one stage: Command::spawn fails, expect panics
SpawnPanic ==
    /\ pc \in {"created", "spawn_all"}
    /\ pc' = "panicked"
    /\ parent_fds' = {}
    /\ \E err \in IoKinds :
          run_result' = ExpectPanic(err, commands[Len(jobs) + 1])
    /\ proc' = drop_jobs(proc)
    /\ UNCHANGED <<raw, new_result, commands, jobs, waited, pid_file,
                   stops, signals, pending>>

\* fs::File::create(.pid): the file exists, empty
CreatePidFile ==
    /\ pc = "spawned"
    /\ pid_file' = File_create(pid_file)
    /\ pc' = "pid_created"
    /\ UNCHANGED <<run_result, raw, new_result, commands, jobs, waited, proc,
                   parent_fds, stops, signals, pending>>

\* fs::File::create(.pid) fails, unwrap panics
CreatePidFilePanic ==
    /\ pc = "spawned"
    /\ pc' = "panicked"
    /\ \E err \in IoKinds : run_result' = UnwrapPanic("create", err)
    /\ UNCHANGED <<raw, new_result, commands, jobs, waited, proc, parent_fds,
                   pid_file, stops, signals, pending>>

\* write_all(first_job_pid) and flush
WritePidFile ==
    /\ pc = "pid_created"
    /\ pid_file' = write_all(pid_file, pid_text(get_first_pid(jobs)))
    /\ pc' = "waiting"
    /\ UNCHANGED <<run_result, raw, new_result, commands, jobs, waited, proc,
                   parent_fds, stops, signals, pending>>

\* write_all or flush fails, unwrap panics: the created file stays
WritePidFilePanic ==
    /\ pc = "pid_created"
    /\ pc' = "panicked"
    /\ \E err \in IoKinds : run_result' = UnwrapPanic("write", err)
    /\ UNCHANGED <<raw, new_result, commands, jobs, waited, proc, parent_fds,
                   pid_file, stops, signals, pending>>

\* A faulty variant of wait_upto: the loop stops before the last job.
wait_upto_skip_tail(js) == Len(js) - 1

\* the wait loop of run passes every entry of jobs
wait_upto(js) == Len(js)

\* the wait loop of run ends: there is no job left to wait for
WaitDone ==
    /\ pc = "waiting"
    /\ waited >= wait_upto(jobs)
    /\ pc' = "waited"
    /\ UNCHANGED <<run_result, raw, new_result, commands, jobs, waited, proc,
                   parent_fds, pid_file, stops, signals, pending>>

\* jobs.wait() returns: the next job in order has exited and is reaped
WaitJob ==
    /\ pc = "waiting"
    /\ waited < wait_upto(jobs)
    /\ proc[waited + 1] = "zombie"
    /\ proc' = [proc EXCEPT ![waited + 1] = "reaped"]
    /\ waited' = waited + 1
    /\ UNCHANGED <<run_result, raw, pc, new_result, commands, jobs,
                   parent_fds, pid_file, stops, signals, pending>>

\* jobs.wait() fails, unwrap panics
WaitPanic ==
    /\ pc = "waiting"
    /\ waited < wait_upto(jobs)
    /\ pc' = "panicked"
    /\ \E err \in IoKinds : run_result' = UnwrapPanic("wait", err)
    /\ UNCHANGED <<raw, new_result, commands, jobs, waited, proc, parent_fds,
                   pid_file, stops, signals, pending>>

\* drop(pid_file); fs::remove_file(.pid): removing a file that is not there
\* is an error (NotFound), and unwrap panics
RemovePidFile ==
    /\ pc = "waited"
    /\ IF pid_file.exists
       THEN /\ pid_file' = NoFile
            /\ pc' = "returned"
            /\ run_result' = Returned
       ELSE /\ pid_file' = pid_file
            /\ pc' = "panicked"
            /\ run_result' = UnwrapPanic("remove", "NotFound")
    /\ UNCHANGED <<raw, new_result, commands, jobs, waited, proc, parent_fds,
                   stops, signals, pending>>

\* fs::remove_file fails for another reason, unwrap panics: the file stays
RemovePidFilePanic ==
    /\ pc = "waited"
    /\ pc' = "panicked"
    /\ \E err \in IoKinds \ {"NotFound"} :
          run_result' = UnwrapPanic("remove", err)
    /\ UNCHANGED <<raw, new_result, commands, jobs, waited, proc, parent_fds,
                   pid_file, stops, signals, pending>>

\* ------------------------------------------------------------------ the processes

\* the pid names a process the OS still knows (running, or exited and not
\* yet reaped)
Alive(p) == \E i \in Stages : pid_of(i) = p /\ proc[i] \in {"running", "zombie"}

\* Stage i reads end of file on its stdin: its stdin is a pipe, and nobody
\* holds the write end of that pipe any more (no running child has it as
\* stdout, the supervisor does not have it open).
AtEof(i) ==
    /\ i <= Len(jobs)
    /\ jobs[i].stdin # Inherit
    /\ LET w == <<jobs[i].stdin[1], "w">>
       IN  /\ w \notin parent_fds
           /\ \A j \in 1..Len(jobs) : jobs[j].stdout = w => proc[j] # "running"

\* a stage exits by itself (its work is done, or its output pipe broke)
StageExit(i) ==
    /\ proc[i] = "running"
    /\ proc' = [proc EXCEPT ![i] = "zombie"]
    /\ pending' = pending \ {pid_of(i)}
    /\ UNCHANGED <<run_result, raw, pc, new_result, commands, jobs, waited,
                   parent_fds, pid_file, stops, signals>>

\* a stage has read end of file on its stdin and exits
EofExit(i) ==
    /\ proc[i] = "running"
    /\ AtEof(i)
    /\ proc' = [proc EXCEPT ![i] = "zombie"]
    /\ pending' = pending \ {pid_of(i)}
    /\ UNCHANGED <<run_result, raw, pc, new_result, commands, jobs, waited,
                   parent_fds, pid_file, stops, signals>>

\* SIGTERM reaches a running process, which terminates
Deliver(i) ==
    /\ proc[i] = "running"
    /\ pid_of(i) \in pending
    /\ proc' = [proc EXCEPT ![i] = "zombie"]
    /\ pending' = pending \ {pid_of(i)}
    /\ UNCHANGED <<run_result, raw, pc, new_result, commands, jobs, waited,
                   parent_fds, pid_file, stops, signals>>

\* the supervisor is gone (panicked): init reaps the exited children
OrphanReap(i) ==
    /\ pc = "panicked"
    /\ proc[i] = "zombie"
    /\ proc' = [proc EXCEPT ![i] = "reaped"]
    /\ UNCHANGED <<run_result, raw, pc, new_result, commands, jobs, waited,
                   parent_fds, pid_file, stops, signals, pending>>

\* ------------------------------------------------------------------ Pipeline::stop

\* invocations are started in the order of their ids
MayStart(k) == IF k = 1 THEN TRUE ELSE stops[k - 1].pc # "idle"

\* fs::read_to_string(.pid): the content, or Err(NotFound) through `?`
StopRead(k) ==
    /\ stops[k].pc = "idle"
    /\ MayStart(k)
    /\ stops' = [stops EXCEPT ![k] =
          IF pid_file.exists
          THEN [StopIdle EXCEPT !.pc = "read", !.existed = TRUE,
                                 !.pid = pid_file.content]
          ELSE [StopIdle EXCEPT !.pc = "done", !.result = From_io_Error("NotFound")]]
    /\ UNCHANGED <<run_result, raw, pc, new_result, commands, jobs, waited,
                   proc, parent_fds, pid_file, signals, pending>>

\* fs::read_to_string fails on a file that is there
StopReadFail(k) ==
    /\ stops[k].pc = "idle"
    /\ MayStart(k)
    /\ pid_file.exists
    /\ \E kind \in IoKinds \ {"NotFound"} :
          stops' = [stops EXCEPT ![k] =
              [StopIdle EXCEPT !.pc = "done", !.existed = TRUE,
                               !.result = From_io_Error(kind)]]
    /\ UNCHANGED <<run_result, raw, pc, new_result, commands, jobs, waited,
                   proc, parent_fds, pid_file, signals, pending>>

\* A faulty variant of StopKill: stop also deletes the record it has read.
StopKill_remove(k) ==
    /\ stops[k].pc = "read"
    /\ LET p == parse_pid(stops[k].pid)
       IN  IF p >= 0 /\ Alive(p)
           THEN /\ signals' = signals \cup {[by |-> k, to |-> p]}
                /\ pending' = IF \E i \in Stages : pid_of(i) = p /\ proc[i] = "running"
                              THEN pending \cup {p} ELSE pending
                /\ stops' = [stops EXCEPT ![k].pc = "done", ![k].result = "Ok",
                                          ![k].kill_status = 0]
           ELSE /\ UNCHANGED <<signals, pending>>
                /\ stops' = [stops EXCEPT ![k].pc = "done", ![k].result = "Ok",
                                          ![k].kill_status = 1]
    /\ pid_file' = NoFile
    /\ UNCHANGED <<run_result, raw, pc, new_result, commands, jobs, waited,
                   proc, parent_fds>>

\* Command::new("kill").arg("-SIGTERM").arg(pid).status() runs kill: a pid
\* the OS knows is signalled and kill exits 0, anything else makes kill
\* exit 1; the exit status is discarded and stop returns Ok(())
StopKill(k) ==
    /\ stops[k].pc = "read"
    /\ LET p == parse_pid(stops[k].pid)
       IN  IF p >= 0 /\ Alive(p)
           THEN /\ signals' = signals \cup {[by |-> k, to |-> p]}
                /\ pending' = IF \E i \in Stages : pid_of(i) = p /\ proc[i] = "running"
                              THEN pending \cup {p} ELSE pending
                /\ stops' = [stops EXCEPT ![k].pc = "done", ![k].result = "Ok",
                                          ![k].kill_status = 0]
           ELSE /\ UNCHANGED <<signals, pending>>
                /\ stops' = [stops EXCEPT ![k].pc = "done", ![k].result = "Ok",
                                          ![k].kill_status = 1]
    /\ UNCHANGED <<run_result, raw, pc, new_result, commands, jobs, waited,
                   proc, parent_fds, pid_file>>

\* status() fails to run kill at all (no kill on the PATH is NotFound):
\* Err through `?`
StopKillSpawnFail(k) ==
    /\ stops[k].pc = "read"
    /\ \E kind \in IoKinds :
          stops' = [stops EXCEPT ![k].pc = "done", ![k].result = From_io_Error(kind)]
    /\ UNCHANGED <<run_result, raw, pc, new_result, commands, jobs, waited,
                   proc, parent_fds, pid_file, signals, pending>>

\* ------------------------------------------------------------------ specifications

\* the steps of the program and of its processes when every system call
\* succeeds
Steps ==
    \/ NewPanic
    \/ NewOk
    \/ SpawnOk
    \/ CreatePidFile
    \/ WritePidFile
    \/ WaitJob
    \/ WaitDone
    \/ RemovePidFile
    \/ \E i \in Stages : StageExit(i)
    \/ \E i \in Stages : EofExit(i)
    \/ \E i \in Stages : Deliver(i)
    \/ \E k \in StopIds : StopRead(k)
    \/ \E k \in StopIds : StopKill(k)

\* the steps in which a system call fails
Faults ==
    \/ NewDirFail
    \/ LogFilePanic
    \/ SpawnPanic
    \/ CreatePidFilePanic
    \/ WritePidFilePanic
    \/ WaitPanic
    \/ RemovePidFilePanic
    \/ \E i \in Stages : OrphanReap(i)
    \/ \E k \in StopIds : StopReadFail(k)
    \/ \E k \in StopIds : StopKillSpawnFail(k)

Next == Steps \/ Faults

Spec == Init /\ [][Next]_vars

\* the steps of run, on the supervisor's one thread, when every system call
\* succeeds
RunStep ==
    \/ SpawnOk
    \/ CreatePidFile
    \/ WritePidFile
    \/ WaitJob
    \/ WaitDone
    \/ RemovePidFile

\* some stage at end of file exits
SomeEofExit == \E i \in Stages : EofExit(i)

\* the thread in run keeps running, and a stage that stays at end of file
\* exits
Fairness == WF_vars(RunStep) /\ WF_vars(SomeEofExit)

\* every system call succeeds, the supervisor thread keeps running, a stage
\* at end of file exits and a pending signal is delivered
LiveSpec == Init /\ [][Steps]_vars /\ Fairness

\* ------------------------------------------------------------------ parsing alone

\* the pipeline of the repository's test tests::parse_raw_pipeline
TestExpr ==
    <<"c", "a", "t", " ", "f", "i", "l", "e", " ", "-", "a", " ", "-", "v",
    " ", "|", " ", "p", "v", " ", "-", "-", "f", "o", "r", "c", "e", " ",
    "|", " ", " ", " ", "o", "o", "p", "s", "_", "t", "w", "o", "_", "s",
    "p", "a", "c", "e", "s", " ", " ", "|", " ", " ", " ", " ", " ", " ",
    "g", "r", "e", "p", " ", "'", "a", "'", " ">>

\* the commands that test expects
TestCommands ==
    <<[name |-> <<"c", "a", "t">>,
       args |-> <<<<"f", "i", "l", "e">>, <<"-", "a">>, <<"-", "v">>>>],
      [name |-> <<"p", "v">>,
       args |-> <<<<"-", "-", "f", "o", "r", "c", "e">>>>],
      [name |-> <<"o", "o", "p", "s", "_", "t", "w", "o", "_", "s", "p", "a", "c", "e", "s">>,
       args |-> <<>>],
      [name |-> <<"g", "r", "e", "p">>,
       args |-> <<<<"a">>>>]>>

\* every expression of up to MaxLen characters of the alphabet
Exprs == UNION {[1..n -> Alphabet] : n \in 0..MaxLen}

InitParse == raw \in (Exprs \cup {TestExpr}) /\ InitRest

NextParse == NewPanic \/ NewOk \/ NewDirFail

\* Pipeline::new applied to every short expression
ParseSpec == InitParse /\ [][NextParse]_vars

\* records left behind by an earlier run of the same name that panicked (its
\* .pid is never removed): the pid of a process that is gone, as text
StaleRecords == {<<"7">>, <<"1", "2", "3", "4">>}

\* the state after construction when metadata_dir already holds a stale .pid
InitStale ==
    /\ raw \in RunExprs
    /\ pc = "start"
    /\ new_result = "none"
    /\ commands = <<>>
    /\ jobs = <<>>
    /\ waited = 0
    /\ proc = [i \in Stages |-> "unborn"]
    /\ parent_fds = {}
    /\ pid_file \in {[exists |-> TRUE, content |-> c] : c \in StaleRecords}
    /\ stops = [k \in StopIds |-> StopIdle]
    /\ signals = {}
    /\ pending = {}
    /\ run_result = NoResult

RegistrySpec == InitStale /\ [][Next]_vars

\* the record is deleted from outside this run: by hand, or by another run
\* of the same name reaching its own remove_file first
ExternalRemove ==
    /\ pid_file.exists
    /\ pid_file' = NoFile
    /\ UNCHANGED <<run_result, raw, pc, new_result, commands, jobs, waited,
                   proc, parent_fds, stops, signals, pending>>

NextExt == Next \/ ExternalRemove

ExtSpec == Init /\ [][NextExt]_vars

\* ------------------------------------------------------------------ words, as the claims read them

\* The claims speak of the segments of an expression and of the words of a
\* segment. For expressions of letters, blanks, '|' and single quotes these
\* are defined here from positions, without the tokenizer.

\* the positions of the pipe characters, and the two ends
Bars(e) == {0, Len(e) + 1} \cup {i \in 1..Len(e) : e[i] = "|"}

\* the k-th smallest element of a set of numbers
Nth(S, k) == CHOOSE x \in S : Cardinality({y \in S : y <= x}) = k

SegmentCount(e) == Cardinality(Bars(e)) - 1

\* the k-th segment: what lies between the k-th and the next bar
Segment(e, k) == SubSeq(e, Nth(Bars(e), k) + 1, Nth(Bars(e), k + 1) - 1)

\* position i of g lies inside single quotes opened before it
Quoted(g, i) == Cardinality({j \in 1..(i - 1) : g[j] = "'"}) % 2 = 1

\* a blank that separates words
Separator(g, i) == g[i] = " " /\ ~Quoted(g, i)

Balanced(g) == Cardinality({j \in 1..Len(g) : g[j] = "'"}) % 2 = 0

\* where the words of g start and end: maximal runs without a separator
WordStarts(g) ==
    {i \in 1..Len(g) : ~Separator(g, i) /\ (i = 1 \/ Separator(g, i - 1))}

WordEnd(g, i) ==
    CHOOSE j \in i..Len(g) :
        /\ \A m \in i..j : ~Separator(g, m)
        /\ (j = Len(g) \/ Separator(g, j + 1))

NotQuote(c) == c # "'"

\* the words of a segment, in order, quotes stripped
Words(g) ==
    [k \in 1..Cardinality(WordStarts(g)) |->
        LET i == Nth(WordStarts(g), k)
        IN  SelectSeq(SubSeq(g, i, WordEnd(g, i)), NotQuote)]

\* every segment is balanced and has at least one word
WellFormed(e) ==
    \A k \in 1..SegmentCount(e) :
        Balanced(Segment(e, k)) /\ WordStarts(Segment(e, k)) # {}

\* some segment has no word, or cannot be tokenized
HasZeroTokenStage(e) == ~WellFormed(e)

\* one command per segment: first word and the remaining words
ExpectedCommands(e) ==
    [k \in 1..SegmentCount(e) |->
        [name |-> Head(Words(Segment(e, k))), args |-> Tail(Words(Segment(e, k)))]]

\* e with one more blank before position p
InsertBlank(e, p) == SubSeq(e, 1, p - 1) \o <<" ">> \o SubSeq(e, p, Len(e))

\* where a blank can be added between words or around '|': at either end,
\* next to a bar, or next to a separator
BlankPoints(e) ==
    {p \in 1..(Len(e) + 1) :
        \/ p = 1
        \/ p = Len(e) + 1
        \/ e[p] = "|"
        \/ e[p - 1] = "|"
        \/ Separator(e, p)}

\* ------------------------------------------------------------------ claims: parsing

\* C9: for an expression whose segments each hold at least one word,
\* parse_raw_pipeline gives one command per segment, in order, named by the
\* segment's first word with the remaining words as args (quotes stripped);
\* a blank more between words or around '|' changes nothing; the pipeline of
\* the repository's test parses to the commands the test expects.
C9_ParseWords ==
    (pc # "start" /\ WellFormed(raw)) =>
        /\ new_result # "panic"
        /\ (pc = "created" =>
              /\ Len(commands) = SegmentCount(raw)
              /\ commands = ExpectedCommands(raw)
              /\ (raw = TestExpr => commands = TestCommands)
              /\ \A p \in BlankPoints(raw) :
                    /\ ~parse_raw_pipeline(InsertBlank(raw, p)).panic
                    /\ parse_raw_pipeline(InsertBlank(raw, p)).commands = commands)

\* C9 witness: a pipeline of two stages, one with a quoted argument, parsed
C9_Witness ==
    /\ pc = "created"
    /\ Len(commands) = 2
    /\ \E k \in 1..2 : commands[k].args # <<>>
    /\ \E i \in 1..Len(raw) : raw[i] = "'"

\* C10: an expression with a stage of zero tokens is rejected with a
\* ParseError returned to the caller of Pipeline::new (and no pipeline is
\* constructed, no process spawned).
C10_ZeroTokenStageRejected ==
    (pc # "start" /\ HasZeroTokenStage(raw)) =>
        /\ new_result = "ParseError"
        /\ commands = <<>>
        /\ jobs = <<>>

\* ------------------------------------------------------------------ claims: run and stop

\* the stages are all spawned and run is supervising them
Supervised == pc \in {"spawned", "pid_created", "waiting", "waited"}

\* all stages spawned, not yet all of them waited on
Running ==
    /\ Supervised
    /\ jobs # <<>>
    /\ Len(jobs) = Len(commands)
    /\ \E i \in 1..Len(jobs) : proc[i] # "reaped"

HeadRecord == [exists |-> TRUE, content |-> to_string(pid_of(1))]

\* C1: run does not return until every spawned stage has exited and its
\* exit status has been collected by a wait, and when run has returned the
\* head-pid record is gone.
C1_ReturnAfterAllReaped ==
    pc = "returned" =>
        /\ Len(jobs) = Len(commands)
        /\ Len(jobs) >= 1
        /\ waited = Len(jobs)
        /\ \A i \in 1..Len(jobs) : proc[i] = "reaped"
        /\ ~pid_file.exists

\* C1 witness: run has returned from a pipeline of three stages
C1_Witness == pc = "returned" /\ Len(jobs) = 3

\* C2: every termination signal ever sent is addressed to the pid of the
\* head stage, never to the pid of a later stage, and an invocation of stop
\* sends at most one signal (exactly one when kill succeeds).
C2_OnlyHeadSignalled ==
    /\ \A s \in signals :
          /\ jobs # <<>>
          /\ s.to = jobs[1].pid
          /\ \A i \in 2..Len(jobs) : s.to # jobs[i].pid
    /\ \A k \in StopIds :
          Cardinality({s \in signals : s.by = k}) =
              (IF stops[k].kill_status = 0 THEN 1 ELSE 0)

\* C2 witness: a pipeline of three stages is stopped, one signal is sent
C2_Witness ==
    /\ Len(jobs) = 3
    /\ Cardinality(signals) = 1
    /\ \E k \in StopIds : stops[k].result = "Ok" /\ stops[k].kill_status = 0

\* the head stage has been spawned and has exited
HeadExited == jobs # <<>> /\ proc[1] \in {"zombie", "reaped"}

\* run has returned, every stage is reaped and the record is gone
Drained ==
    /\ pc = "returned"
    /\ \A i \in 1..Len(jobs) : proc[i] = "reaped"
    /\ ~pid_file.exists

\* the supervisor holds no write end of a connecting pipe, and no pipe end
\* at all once spawn_all has returned
NoPipeEndKept ==
    /\ \A f \in parent_fds : f[2] # "w"
    /\ (Supervised \/ pc = "returned") => parent_fds = {}

\* C3: once the head stage has exited, every downstream stage (which exits
\* when it reads end of file) sees end of file and exits, and run returns
\* with the record removed; the supervisor keeps no pipe end open that would
\* hold back the end of file.
C3_DrainLiveness == (HeadExited ~> Drained) /\ []NoPipeEndKept

\* C3 witness: a pipeline of three stages was stopped and has drained
C3_Witness == Drained /\ Len(jobs) = 3 /\ signals # {}

\* C4: if the record exists then the pipeline is running (all stages
\* spawned, not all waited on, run still supervising) and the record holds
\* the head pid; no exit path of run leaves a record behind.
C4_RecordOnlyWhileRunning ==
    pid_file.exists => (Running /\ waited < Len(jobs) /\ pid_file = HeadRecord)

\* C5 as claimed: in every state in which the stages are running under run
\* the record exists and holds the head pid.
C5_RecordWhileRunning == Running => pid_file = HeadRecord

\* the states between the write of the record and its removal
RecordWindow == pc \in {"waiting", "waited"}

\* stop k reads the record in this step
Reads(k) == stops[k].pc = "idle" /\ stops'[k].pc # "idle"

\* C5 amended: from the completion of the write of the record (after
\* spawn_all) until its removal the record exists and holds the head pid as
\* decimal text, and a stop whose read succeeds in that window has read the
\* head pid; it is not told NotFound.
C5_RecordFromWriteToRemoval ==
    /\ [](RecordWindow =>
            /\ pid_file.exists
            /\ parse_pid(pid_file.content) = jobs[1].pid)
    /\ [][\A k \in StopIds :
            (Reads(k) /\ RecordWindow) =>
                /\ stops'[k].result # "FileNotFound"
                /\ (stops'[k].pc = "read" =>
                        parse_pid(stops'[k].pid) = jobs[1].pid)]_vars

\* C5 witness: a stop has read the head pid while run waits on the stages
C5_Witness ==
    /\ pc = "waiting"
    /\ \E k \in StopIds :
          stops[k].pc = "read" /\ stops[k].pid = to_string(pid_of(1))

\* C6: stop on a name with no record returns FileNotFound, sends no signal
\* and leaves the record as it was.
C6_StopWithoutRecord ==
    /\ [](\A k \in StopIds :
            (stops[k].pc = "done" /\ ~stops[k].existed) =>
                /\ stops[k].result = "FileNotFound"
                /\ \A s \in signals : s.by # k)
    /\ [][\A k \in StopIds :
            (Reads(k) /\ ~pid_file.exists) =>
                /\ stops'[k].pc = "done"
                /\ stops'[k].result = "FileNotFound"
                /\ signals' = signals
                /\ pending' = pending
                /\ pid_file' = pid_file]_vars

\* C6 witness: a stop found no record while the pipeline was being spawned
C6_Witness ==
    /\ ~pid_file.exists
    /\ signals = {}
    /\ jobs # <<>>
    /\ \E k \in StopIds : stops[k].pc = "done" /\ stops[k].result = "FileNotFound"

\* C7: stop returns Ok only if the record existed and the signal was
\* delivered to the recorded pid.
C7_OkOnlyIfDelivered ==
    \A k \in StopIds :
        stops[k].result = "Ok" =>
            /\ stops[k].existed
            /\ stops[k].kill_status = 0
            /\ \E s \in signals : s.by = k /\ s.to = parse_pid(stops[k].pid)

\* C8: stop returns FileNotFound if and only if the record was absent; every
\* other failure of stop is another kind of error.
C8_NotFoundIffAbsent ==
    \A k \in StopIds :
        stops[k].pc = "done" =>
            (stops[k].result = "FileNotFound" <=> ~stops[k].existed)

\* ------------------------------------------------------------------ claims: spawning

\* C11: when a stage cannot be spawned, the caller of run is handed a
\* SpawnError (naming the stage), before any wait and before any record is
\* written.
C11_SpawnErrorSurfaced ==
    run_result.at = "spawn" =>
        /\ run_result.kind = "SpawnError"
        /\ waited = 0
        /\ ~pid_file.exists

\* spawn_all has returned
AllSpawned == Supervised \/ pc = "returned"

\* C12: after spawn_all, jobs holds one handle per stage, in the order of
\* the stages; stage 0 reads the supervisor's stdin, every later stage reads
\* the read end of the pipe whose write end is the stdout of the stage
\* before it, and the last stage writes to the supervisor's stdout.
C12_ChainWiring ==
    AllSpawned =>
        LET n == Len(commands)
        IN  /\ n >= 1
            /\ Len(jobs) = n
            /\ \A i \in 1..n :
                  /\ jobs[i].name = commands[i].name
                  /\ jobs[i].args = commands[i].args
                  /\ jobs[i].pid = pid_of(i)
            /\ jobs[1].stdin = Inherit
            /\ jobs[n].stdout = Inherit
            /\ \A i \in 2..n :
                  /\ jobs[i - 1].stdout[2] = "w"
                  /\ jobs[i].stdin = <<jobs[i - 1].stdout[1], "r">>
            /\ \A i, j \in 1..(n - 1) :
                  i # j => jobs[i].stdout[1] # jobs[j].stdout[1]

\* C12 witness: a pipeline of three stages is spawned
C12_Witness == pc = "spawned" /\ Len(jobs) = 3

\* ------------------------------------------------------------------ claims: the record

\* the record has been written by this run and not removed
Written ==
    \/ RecordWindow
    \/ pc = "panicked" /\ run_result.at \in {"wait", "remove"}

\* C13: once run has written the head pid p over whatever record was there,
\* the record is exactly the text of p, a stop that reads it reads p (the
\* pid it hands to kill), and once run has removed the record there is none
\* and a stop that reads is told FileNotFound.
C13_RegistryRoundTrip ==
    /\ [](Written => /\ pid_file.exists
                     /\ parse_pid(pid_file.content) = get_first_pid(jobs))
    /\ [](pc = "returned" => ~pid_file.exists)
    /\ [][\A k \in StopIds : Reads(k) =>
            /\ Written =>
                  /\ stops'[k].result # "FileNotFound"
                  /\ stops'[k].pc = "read" =>
                        parse_pid(stops'[k].pid) = get_first_pid(jobs)
            /\ pc = "returned" =>
                  /\ stops'[k].pc = "done"
                  /\ stops'[k].result = "FileNotFound"]_vars

\* C13 witness: one stop has read the head pid from the record written over
\* a stale one, and a later stop, after the removal, was told FileNotFound
C13_Witness ==
    /\ pc = "returned"
    /\ stops[1].existed
    /\ parse_pid(stops[1].pid) = pid_of(1)
    /\ [by |-> 1, to |-> pid_of(1)] \in signals
    /\ stops[2].pc = "done"
    /\ ~stops[2].existed
    /\ stops[2].result = "FileNotFound"

\* C14: when run reaches its cleanup and the record is already absent, the
\* removal is a no-op and run completes normally.
C14_RemoveIdempotent ==
    [][(/\ pc = "waited"
        /\ ~pid_file.exists
        /\ pc' # pc
        /\ run_result'.err \notin IoKinds \ {"NotFound"})
          => (pc' = "returned" /\ run_result' = Returned)]_vars

\* ------------------------------------------------------------------ claims: process groups

\* C15: every spawned stage is alone in a process group of its own, which is
\* not the supervisor's, so a signal addressed to the head pid (a positive
\* pid, never a group) has the head stage as its only receiver.
C15_OwnProcessGroup ==
    /\ \A i \in 1..Len(jobs) :
          /\ jobs[i].pgid = jobs[i].pid
          /\ jobs[i].pgid # supervisor_pgid
          /\ \A j \in 1..Len(jobs) : i # j => jobs[i].pgid # jobs[j].pgid
    /\ \A s \in signals :
          /\ s.to > 0
          /\ {i \in 1..Len(jobs) : jobs[i].pid = s.to \/ jobs[i].pgid = s.to} = {1}
    /\ \A p \in pending :
          {i \in 1..Len(jobs) : jobs[i].pgid = p} = {1}

\* C15 witness: three stages are spawned, the head has a signal pending and
\* the other two run on
C15_Witness ==
    /\ Len(jobs) = 3
    /\ pending = {jobs[1].pid}
    /\ proc[2] = "running"
    /\ proc[3] = "running"

\* ------------------------------------------------------------------ claims: the order of a run

\* C16: within one run, stage i + 1 is spawned only after stage i; the
\* record is written only when all n stages are spawned and no wait has
\* returned; the waits return in the order of the stages; and the record is
\* removed only after the wait on the last stage has returned.
C16_LifecycleOrder ==
    /\ [](\A i \in Stages : proc[i] # "unborn" <=> i <= Len(jobs))
    /\ [](pc # "panicked" =>
            \A i \in Stages : proc[i] = "reaped" <=> i <= waited)
    /\ [][/\ jobs' # jobs =>
                /\ Len(jobs') = Len(jobs) + 1
                /\ SubSeq(jobs', 1, Len(jobs)) = jobs
                /\ jobs'[Len(jobs')].pid = pid_of(Len(jobs'))
                /\ waited = 0
                /\ ~pid_file.exists
          /\ (pid_file' # pid_file /\ pid_file'.exists) =>
                /\ Len(jobs) = Len(commands)
                /\ Len(jobs) >= 1
                /\ waited = 0
          /\ waited' # waited =>
                /\ waited' = waited + 1
                /\ waited' <= Len(jobs)
                /\ pid_file = HeadRecord
          /\ (pid_file.exists /\ ~pid_file'.exists) =>
                /\ Len(jobs) = Len(commands)
                /\ waited = Len(jobs)]_vars

\* C16 witness: three stages spawned, the record written, two waits done
C16_Witness ==
    /\ pc = "waiting"
    /\ Len(jobs) = 3
    /\ waited = 2
    /\ pid_file = HeadRecord

\* C17: when the spawn of stage i fails, the failing step sends no signal,
\* waits on nothing, and leaves every stage spawned before it as it was
\* (running ones keep running); no wait has been or will be made.
C17_NoRollback ==
    /\ [](run_result.at = "spawn" => waited = 0 /\ pc = "panicked")
    /\ [][(run_result'.at = "spawn" /\ run_result.at # "spawn") =>
              /\ proc' = proc
              /\ jobs' = jobs
              /\ signals' = signals
              /\ pending' = pending
              /\ waited' = waited]_vars
    /\ [][run_result.at = "spawn" =>
              /\ signals' \subseteq signals \cup
                    {[by |-> k, to |-> parse_pid(stops[k].pid)] : k \in StopIds}
              /\ waited' = waited]_vars

\* C17 witness: the spawn of the third stage has failed and the first two
\* stages run on, unsignalled
C17_Witness ==
    /\ run_result.at = "spawn"
    /\ Len(jobs) = 2
    /\ proc[1] = "running"
    /\ proc[2] = "running"
    /\ signals = {}

\* C18: the supervisor never holds a write end of a connecting pipe, holds
\* the read end of a pipe only from the spawn of its writer to the spawn of
\* its reader, and holds no end at all once spawn_all has returned; the
\* write end of pipe i is stage i's stdout only and its read end is stage
\* i + 1's stdin only.
C18_PipeEndsClosedInParent ==
    /\ \A f \in parent_fds :
          /\ f = <<Len(jobs), "r">>
          /\ pc = "spawn_all"
    /\ AllSpawned =>
          /\ parent_fds = {}
          /\ \A p \in 1..(Len(jobs) - 1) :
                /\ {i \in 1..Len(jobs) : jobs[i].stdout = <<p, "w">>} = {p}
                /\ {i \in 1..Len(jobs) : jobs[i].stdin = <<p, "r">>} = {p + 1}
                /\ \A i \in 1..Len(jobs) :
                      /\ jobs[i].stdin # <<p, "w">>
                      /\ jobs[i].stdout # <<p, "r">>

\* C18 witness: spawn_all has returned for three stages, all still running
C18_Witness ==
    /\ pc = "spawned"
    /\ Len(jobs) = 3
    /\ \A i \in 1..3 : proc[i] = "running"
    /\ parent_fds = {}

\* a step of stop k
StopStep(k) == stops'[k] # stops[k]

\* C19: no step of stop changes the record or waits on a process; the
\* record is created and removed by steps of run only, and it is removed
\* only when run has waited on every stage, signalled or not.
C19_StopLeavesRecord ==
    [][/\ \A k \in StopIds : StopStep(k) =>
              /\ pid_file' = pid_file
              /\ waited' = waited
              /\ proc' = proc
              /\ jobs' = jobs
              /\ pc' = pc
       /\ pid_file' # pid_file =>
              /\ pc \in {"spawned", "pid_created", "waited"}
              /\ pc' # pc
              /\ stops' = stops
       /\ (pid_file.exists /\ ~pid_file'.exists) =>
              /\ pc = "waited"
              /\ waited = Len(jobs)
              /\ \A i \in 1..Len(jobs) : proc[i] = "reaped"]_vars

\* C19 witness: a stop has signalled the head and returned, a second stop
\* has failed, and the record is still there while run waits
C19_Witness ==
    /\ pc = "waiting"
    /\ waited < Len(jobs)
    /\ stops[1].pc = "done"
    /\ stops[1].kill_status = 0
    /\ stops[2].pc = "done"
    /\ stops[2].result = "Other"
    /\ pid_file = HeadRecord

====
